---- MODULE Spec2Model ----
(***************************************************************************)
(* exam_generator.py: Question (choice shuffling with a cached             *)
(* permutation, LaTeX rendering), QuestionBank (sampling without           *)
(* replacement), ExamGenerator (document assembly) and the command-line    *)
(* driver main().                                                          *)
(*                                                                         *)
(* A LaTeX string is modelled as the sequence of its lines; a line is a    *)
(* record [cmd, n, arg].  Question instances live in the heap `questions`  *)
(* (a sequence; an instance is its index), so that two references to the   *)
(* same instance share its _shuffled_indices.  Every use of the `random`   *)
(* module is a nondeterministic choice over all outcomes it can produce.   *)
(***************************************************************************)
EXTENDS Integers, Sequences, FiniteSets, TLC

VARIABLES
    questions,      \* heap of Question instances (index = identity)
    banks,          \* ExamGenerator.banks: bank name -> QuestionBank.questions
    preamble_file,  \* ExamGenerator.preamble_file ("" models None)
    ret,            \* the last call: operation, arguments, error, returned value
    returned,       \* history, per instance: the results of its get_shuffled_choices calls
                    \* since its last direct shuffle_choices call, and whether there were two
    pc,             \* main(): position
    config,         \* main(): parsed configuration and arguments
    written,        \* main(): output files, version -> document
    rendered        \* history: per generated version, the instances it rendered

vars == <<questions, banks, preamble_file, ret, returned, pc, config, written, rendered>>

----------------------------------------------------------------------------
(* Bounds *)

MaxChoices == 3

MaxCount == 2

MaxVersions == 2

----------------------------------------------------------------------------
(* Values *)

\* The value None of _shuffled_indices: a tuple no list of indices equals.
None == << -1 >>

\* Choice strings the inputs are drawn from.
Alphabet == {"A", "B", "C"}

Line(cmd, n, arg) == [cmd |-> cmd, n |-> n, arg |-> arg]

SeqsUpTo(S, n) == UNION {[1..k -> S] : k \in 0..n}

\* x in xs, for a Python list xs
In(x, xs) == \E i \in 1..Len(xs) : xs[i] = x

\* dict.get(key, default)
Get(data, key, default) == IF key \in DOMAIN data THEN data[key] ELSE default

\* correct_answers as loaded: a single string, or a list of strings.
\* isList is isinstance(correct_answers, list); a single string s is <<s>>.
Single(s) == [isList |-> FALSE, items |-> <<s>>]

List(xs) == [isList |-> TRUE, items |-> xs]

\* The permutations of 0..n-1, for every list length the model reaches.
PermTable ==
    [n \in 0..MaxChoices |->
        {p \in [1..n -> 0..(n - 1)] : \A i, j \in 1..n : p[i] = p[j] => i = j}]

\* All outcomes of random.shuffle(list(range(n))): the permutations of 0..n-1.
Perms(n) == PermTable[n]

----------------------------------------------------------------------------
(* class Question *)

\* Question.__init__
Question(data) ==
    [text |-> data["text"],
     points |-> Get(data, "points", 1),
     type |-> data["type"],
     choices |-> data["choices"],
     correct_answers |-> data["correct_answers"],
     id |-> Get(data, "id", ""),
     _shuffled_indices |-> None]

\* Question.shuffle_choices, p the outcome of random.shuffle
shuffle_choices(self, p) == [self EXCEPT !._shuffled_indices = p]

\* ShuffledChoices with the index list used as 1-based positions shifted by
\* one: the last index wraps to the first choice's neighbour.
ShuffledChoices_OffByOne(self) ==
    [k \in 1..Len(self._shuffled_indices) |->
        self.choices[IF self._shuffled_indices[k] = 0 THEN 1 ELSE self._shuffled_indices[k]]]

\* line 28: [self.choices[i] for i in self._shuffled_indices]
ShuffledChoices(self) ==
    [k \in 1..Len(self._shuffled_indices) |-> self.choices[self._shuffled_indices[k] + 1]]

\* ShuffledCorrect iterating correct_answers instead of the shuffled choices.
ShuffledCorrect_ByAnswer(shuffled_choices, correct_answers) ==
    SelectSeq(correct_answers.items, LAMBDA answer : In(answer, shuffled_choices))

\* lines 32-35: the shuffled choices that are in correct_answers, in shuffled order
ShuffledCorrect(shuffled_choices, correct_answers) ==
    SelectSeq(shuffled_choices, LAMBDA choice : In(choice, correct_answers.items))

Reverse(xs) == [k \in 1..Len(xs) |-> xs[Len(xs) + 1 - k]]

\* EnsureShuffled without the None test: every call shuffles again (for a
\* cached instance the outcome taken is the cached order reversed).
EnsureShuffled_Always(self, p) ==
    shuffle_choices(self, IF p = None THEN Reverse(self._shuffled_indices) ELSE p)

\* lines 25-26: the instance after the lazy shuffle
EnsureShuffled(self, p) ==
    IF self._shuffled_indices = None THEN shuffle_choices(self, p) ELSE self

\* Question.get_shuffled_choices: the instance afterwards and the returned pair
get_shuffled_choices(self, p) ==
    LET s == EnsureShuffled(self, p)
        shuffled_choices == ShuffledChoices(s)
    IN  [self |-> s,
         value |-> [choices |-> shuffled_choices,
                    correct |-> IF s.correct_answers.isList
                                THEN List(ShuffledCorrect(shuffled_choices, s.correct_answers))
                                ELSE s.correct_answers]]

\* ChoiceLine with the single-answer comparison inverted.
ChoiceLine_Inverted(choice, correct) ==
    IF correct.isList
    THEN IF In(choice, correct.items)
         THEN Line("\\correctchoice", 0, choice)
         ELSE Line("\\choice", 0, choice)
    ELSE IF choice # correct.items[1]
         THEN Line("\\correctchoice", 0, choice)
         ELSE Line("\\choice", 0, choice)

\* lines 53-64: the line of one choice
ChoiceLine(choice, correct) ==
    IF correct.isList
    THEN IF In(choice, correct.items)
         THEN Line("\\correctchoice", 0, choice)
         ELSE Line("\\choice", 0, choice)
    ELSE IF choice = correct.items[1]
         THEN Line("\\correctchoice", 0, choice)
         ELSE Line("\\choice", 0, choice)

\* Question.to_latex: the instance afterwards and the returned lines
to_latex(self, shuffle, p) ==
    LET g == get_shuffled_choices(self, p)
        s == IF shuffle THEN g.self ELSE self
        choices == IF shuffle THEN g.value.choices ELSE self.choices
        correct == IF shuffle THEN g.value.correct ELSE self.correct_answers
    IN  [self |-> s,
         value |-> << Line("\\question", self.points, self.text),
                      Line("\\begin{choices}", 0, "") >>
                   \o [k \in 1..Len(choices) |-> ChoiceLine(choices[k], correct)]
                   \o << Line("\\end{choices}", 0, "") >>]

\* The permutations random.shuffle is asked for by a call on self: it is
\* called only while no permutation is cached.
Shuffles(self) ==
    IF self._shuffled_indices = None THEN Perms(Len(self.choices)) ELSE {None}

----------------------------------------------------------------------------
(* Calls on one Question instance, in any order *)

\* Choice lists up to renaming of the strings: the first new string of a list
\* is "A", the next "B", then "C".  The code compares strings for equality
\* only, and the correct answers below range over every string, so each
\* (choices, correct_answers) over Alphabet is a renaming of one drawn here.
Rank == [c \in Alphabet |-> CASE c = "A" -> 1 [] c = "B" -> 2 [] OTHER -> 3]

Canonical(cs) ==
    \A i \in 1..Len(cs) :
        \/ Rank[cs[i]] = 1
        \/ \E j \in 1..(i - 1) : Rank[cs[j]] >= Rank[cs[i]] - 1

ChoiceLists == {cs \in SeqsUpTo(Alphabet, MaxChoices) : Canonical(cs)}

\* The records Question.__init__ is given: a single correct answer, or a list
\* of up to two, listed in choices or not.
QuestionData ==
    {[text |-> "q", type |-> "multiple_choice", choices |-> cs, correct_answers |-> ca] :
        cs \in ChoiceLists, ca \in {Single(s) : s \in Alphabet}}
    \cup
    {[text |-> "q", type |-> "multiple_selection", choices |-> cs, correct_answers |-> ca] :
        cs \in ChoiceLists, ca \in {List(xs) : xs \in SeqsUpTo(Alphabet, 2)}}

NoCall == [op |-> "", args |-> <<>>, err |-> "", value |-> <<>>]

Call(op, args, err, value) == [op |-> op, args |-> args, err |-> err, value |-> value]

InitQ ==
    /\ \E data \in QuestionData : questions = << Question(data) >>
    /\ banks = << >>
    /\ preamble_file = ""
    /\ ret = NoCall
    /\ returned = [q \in 1..Len(questions) |-> [values |-> {}, repeated |-> FALSE]]
    /\ pc = "library"
    /\ config = << >>
    /\ written = << >>
    /\ rendered = << >>

Frame == UNCHANGED <<banks, preamble_file, pc, config, written, rendered>>

\* a client calls q.shuffle_choices()
CallShuffleChoices ==
    \E q \in 1..Len(questions) :
        /\ \E p \in Perms(Len(questions[q].choices)) :
              questions' = [questions EXCEPT ![q] = shuffle_choices(@, p)]
        /\ ret' = Call("shuffle_choices", <<q>>, "", <<>>)
        /\ returned' = [returned EXCEPT ![q] = [values |-> {}, repeated |-> FALSE]]
        /\ Frame

\* a client calls q.get_shuffled_choices()
CallGetShuffledChoices ==
    \E q \in 1..Len(questions) :
        /\ \E p \in Shuffles(questions[q]) :
              LET r == get_shuffled_choices(questions[q], p)
              IN  /\ questions' = [questions EXCEPT ![q] = r.self]
                  /\ ret' = Call("get_shuffled_choices", <<q>>, "", r.value)
                  /\ returned' = [returned EXCEPT ![q] =
                                      [values |-> @.values \cup {r.value},
                                       repeated |-> @.values # {}]]
        /\ Frame

\* a client calls q.to_latex(shuffle)
CallToLatex ==
    \E q \in 1..Len(questions), shuffle \in BOOLEAN :
        /\ \E p \in (IF shuffle THEN Shuffles(questions[q]) ELSE {None}) :
              LET r == to_latex(questions[q], shuffle, p)
              IN  /\ questions' = [questions EXCEPT ![q] = r.self]
                  /\ ret' = Call("to_latex", <<q, shuffle>>, "", r.value)
        /\ UNCHANGED returned
        /\ Frame

NextQ ==
    \/ CallShuffleChoices
    \/ CallGetShuffledChoices
    \/ CallToLatex

SpecQ == InitQ /\ [][NextQ]_vars

----------------------------------------------------------------------------
(* Files the program reads *)

\* Bank files (the result of yaml.safe_load): two questions, and one.
BankFiles ==
    [f \in {"midterm.yaml", "final.yaml"} |->
        IF f = "midterm.yaml"
        THEN [name |-> "midterm",
              questions |-> <<
                [text |-> "m1", type |-> "multiple_choice", points |-> 2,
                 choices |-> <<"A", "B">>, correct_answers |-> Single("B")],
                [text |-> "m2", type |-> "multiple_selection", id |-> "q2",
                 choices |-> <<"A", "A">>, correct_answers |-> List(<<"A">>)] >>]
        ELSE [name |-> "final",
              questions |-> <<
                [text |-> "f1", type |-> "multiple_selection",
                 choices |-> <<"B", "A">>, correct_answers |-> List(<<"A", "B">>)] >>]]

\* Bank names a selection may use; "quiz" is the name of no bank file.
BankNames == {"midterm", "final", "quiz"}

\* Preamble templates on disk, as tokens; "missing.tex" is no file.
TextFiles ==
    [f \in {"custom.tex"} |->
        <<"\\documentclass{exam}", "%%VERSION%%", "\\begin{document}", "%%VERSION%%">>]

PreambleArgs == {"", "custom.tex", "missing.tex"}

----------------------------------------------------------------------------
(* class QuestionBank *)

Injections(n, m) == {f \in [1..n -> 1..m] : \A i, j \in 1..n : f[i] = f[j] => i = j}

\* Samples drawing with replacement (random.choices instead of random.sample).
Samples_WithReplacement(population, n) ==
    {[k \in 1..n |-> population[f[k]]] : f \in [1..n -> 1..Len(population)]}

\* All outcomes of random.sample(population, n), 0 <= n <= len(population):
\* n elements at pairwise distinct positions, in any order.
Samples(population, n) ==
    {[k \in 1..n |-> population[f[k]]] : f \in Injections(n, Len(population))}

\* sample_questions without the capacity test: a request for more than the
\* bank holds is cut down to the whole bank.
sample_questions_Clamped(bank_questions, n) ==
    {[err |-> "", value |-> s] :
        s \in Samples(bank_questions, IF n > Len(bank_questions) THEN Len(bank_questions) ELSE n)}

\* QuestionBank.sample_questions: the outcomes (an error, or a sample)
sample_questions(bank_questions, n) ==
    IF n > Len(bank_questions)
    THEN {[err |-> "capacity", value |-> << >>]}
    ELSE {[err |-> "", value |-> s] : s \in Samples(bank_questions, n)}

----------------------------------------------------------------------------
(* class ExamGenerator *)

Range(f) == {f[x] : x \in DOMAIN f}

\* The heap positions left when the instances in dead are freed, in order.
Survivors(heap, dead) == SelectSeq([k \in 1..Len(heap) |-> k], LAMBDA k : k \notin dead)

\* ExamGenerator.add_bank: the bank mapping and the heap afterwards.  The
\* questions of a bank replaced under the same name are referenced by nothing
\* else and are freed; the heap is compacted and the references renumbered.
add_bank(heap, bks, yaml_file) ==
    LET data == BankFiles[yaml_file]
        dead == IF data.name \in DOMAIN bks THEN Range(bks[data.name]) ELSE {}
        keep == Survivors(heap, dead)
        moved == [old \in Range(keep) |-> CHOOSE k \in 1..Len(keep) : keep[k] = old]
        fresh == [k \in 1..Len(data.questions) |-> Question(data.questions[k])]
    IN  [questions |-> [k \in 1..Len(keep) |-> heap[keep[k]]] \o fresh,
         banks |-> [b \in DOMAIN bks \cup {data.name} |->
                       IF b = data.name
                       THEN [k \in 1..Len(fresh) |-> Len(keep) + k]
                       ELSE [k \in 1..Len(bks[b]) |-> moved[bks[b][k]]]]]

\* ExamGenerator._generate_preamble
_generate_preamble(pf, version) ==
    IF pf # "" /\ pf \in DOMAIN TextFiles
    THEN [k \in 1..Len(TextFiles[pf]) |->
             Line(IF TextFiles[pf][k] = "%%VERSION%%" THEN ToString(version)
                  ELSE TextFiles[pf][k], 0, "")]
    ELSE << Line("\\documentclass[addpoints,12pt,answers]{exam}", 0, ""),
            Line("\\usepackage{ttfamily}", 0, ""),
            Line("\\usepackage{textcomp}", 0, ""),
            Line("\\pagestyle{headandfoot}", 0, ""),
            Line("\\runningheader{CS Course}{Exam Version}", version, ""),
            Line("\\runningfooter", 0, ""),
            Line("", 0, ""),
            Line("\\begin{document}", 0, ""),
            Line("\\begin{center}", 0, ""),
            Line("\\textbf{Exam}", 0, ""),
            Line("Version", version, ""),
            Line("\\today", 0, ""),
            Line("\\end{center}", 0, ""),
            Line("", 0, "") >>

\* SampleAll skipping a selection whose bank is not loaded.
RECURSIVE SampleAll_SkipUnknown(_, _, _)
SampleAll_SkipUnknown(bks, selections, all_questions) ==
    IF selections = << >>
    THEN {[err |-> "", all |-> all_questions]}
    ELSE LET bank_name == Head(selections).name
             num_questions == Head(selections).count
         IN  IF bank_name \notin DOMAIN bks
             THEN SampleAll_SkipUnknown(bks, Tail(selections), all_questions)
             ELSE UNION {IF s.err # ""
                         THEN {[err |-> s.err, all |-> all_questions]}
                         ELSE SampleAll_SkipUnknown(bks, Tail(selections),
                                                    all_questions \o s.value) :
                           s \in sample_questions(bks[bank_name], num_questions)}

\* SampleAll putting each sample in front of the questions accumulated so far.
RECURSIVE SampleAll_Prepend(_, _, _)
SampleAll_Prepend(bks, selections, all_questions) ==
    IF selections = << >>
    THEN {[err |-> "", all |-> all_questions]}
    ELSE LET bank_name == Head(selections).name
             num_questions == Head(selections).count
         IN  IF bank_name \notin DOMAIN bks
             THEN {[err |-> "bank_not_found", all |-> all_questions]}
             ELSE UNION {IF s.err # ""
                         THEN {[err |-> s.err, all |-> all_questions]}
                         ELSE SampleAll_Prepend(bks, Tail(selections),
                                                s.value \o all_questions) :
                           s \in sample_questions(bks[bank_name], num_questions)}

\* lines 97-102: the outcomes of the sampling loop over the selections that
\* are left, all_questions being what is accumulated so far
RECURSIVE SampleAll(_, _, _)
SampleAll(bks, selections, all_questions) ==
    IF selections = << >>
    THEN {[err |-> "", all |-> all_questions]}
    ELSE LET bank_name == Head(selections).name
             num_questions == Head(selections).count
         IN  IF bank_name \notin DOMAIN bks
             THEN {[err |-> "bank_not_found", all |-> all_questions]}
             ELSE UNION {IF s.err # ""
                         THEN {[err |-> s.err, all |-> all_questions]}
                         ELSE SampleAll(bks, Tail(selections), all_questions \o s.value) :
                           s \in sample_questions(bks[bank_name], num_questions)}

\* lines 106-107: the outcomes of rendering the questions that are left
RECURSIVE RenderAll(_, _, _)
RenderAll(heap, all_questions, latex) ==
    IF all_questions = << >>
    THEN {[questions |-> heap, latex |-> latex]}
    ELSE LET q == Head(all_questions)
         IN  UNION {LET r == to_latex(heap[q], TRUE, p)
                    IN  RenderAll([heap EXCEPT ![q] = r.self], Tail(all_questions),
                                  latex \o r.value \o << Line("", 0, "") >>) :
                      p \in Shuffles(heap[q])}

\* generate_exam rendering the questions of each selection as soon as they
\* are sampled, before the next selection is looked up.
RECURSIVE SampleAndRender(_, _, _, _, _)
SampleAndRender(heap, bks, selections, all_questions, latex) ==
    IF selections = << >>
    THEN {[err |-> "", questions |-> heap, all |-> all_questions, latex |-> latex]}
    ELSE LET bank_name == Head(selections).name
             num_questions == Head(selections).count
         IN  IF bank_name \notin DOMAIN bks
             THEN {[err |-> "bank_not_found", questions |-> heap, all |-> << >>, latex |-> << >>]}
             ELSE UNION {IF s.err # ""
                         THEN {[err |-> s.err, questions |-> heap, all |-> << >>, latex |-> << >>]}
                         ELSE UNION {SampleAndRender(r.questions, bks, Tail(selections),
                                                     all_questions \o s.value, r.latex) :
                                       r \in RenderAll(heap, s.value, latex)} :
                           s \in sample_questions(bks[bank_name], num_questions)}

generate_exam_Interleaved(heap, bks, pf, bank_selections, version) ==
    {[err |-> o.err,
      value |-> IF o.err # "" THEN << >>
                ELSE _generate_preamble(pf, version)
                     \o << Line("\\begin{questions}", 0, "") >>
                     \o o.latex
                     \o << Line("\\end{questions}", 0, ""), Line("\\end{document}", 0, "") >>,
      questions |-> o.questions,
      all |-> o.all] : o \in SampleAndRender(heap, bks, bank_selections, << >>, << >>)}

\* ExamGenerator.generate_exam: the outcomes (error, document, heap
\* afterwards, and the questions sampled)
generate_exam(heap, bks, pf, bank_selections, version) ==
    LET preamble == _generate_preamble(pf, version)
    IN  UNION {IF s.err # ""
               THEN {[err |-> s.err, value |-> << >>, questions |-> heap, all |-> << >>]}
               ELSE {[err |-> "",
                      value |-> preamble
                                \o << Line("\\begin{questions}", 0, "") >>
                                \o r.latex
                                \o << Line("\\end{questions}", 0, ""),
                                      Line("\\end{document}", 0, "") >>,
                      questions |-> r.questions,
                      all |-> s.all] : r \in RenderAll(heap, s.all, << >>)} :
                 s \in SampleAll(bks, bank_selections, << >>)}

----------------------------------------------------------------------------
(* Calls on one ExamGenerator, in any order *)

\* dict items in insertion order: the keys pairwise distinct
Entry(name, count) == [name |-> name, count |-> count]

\* Requested counts: for a name that is no bank the count is never read.
Counts(name) == IF name = "quiz" THEN {1} ELSE 0..MaxCount

Selections ==
    {<< >>}
    \cup UNION {{<<Entry(a, m)>> : m \in Counts(a)} : a \in BankNames}
    \cup UNION {UNION {{<<Entry(a, m), Entry(b, n)>> : m \in Counts(a), n \in Counts(b)} :
                         b \in BankNames \ {a}} :
                 a \in BankNames}

InitGen ==
    /\ questions = << >>
    /\ banks = << >>
    /\ preamble_file = ""
    /\ ret = NoCall
    /\ returned = << >>
    /\ pc = "library"
    /\ config = << >>
    /\ written = << >>
    /\ rendered = << >>

FrameGen == UNCHANGED <<preamble_file, returned, pc, config, written, rendered>>

\* a client calls generator.add_bank(yaml_file)
CallAddBank ==
    \E yaml_file \in DOMAIN BankFiles :
        LET r == add_bank(questions, banks, yaml_file)
        IN  /\ questions' = r.questions
            /\ banks' = r.banks
            /\ ret' = Call("add_bank", <<yaml_file>>, "", << >>)
            /\ FrameGen

\* a client calls generator.banks[name].sample_questions(n)
CallSampleQuestions ==
    \E name \in DOMAIN banks, n \in 0..MaxCount :
        \E r \in sample_questions(banks[name], n) :
            /\ ret' = Call("sample_questions", <<name, n>>, r.err, r.value)
            /\ UNCHANGED <<questions, banks>>
            /\ FrameGen

\* a client calls generator.generate_exam(bank_selections, version)
CallGenerateExam ==
    \E bank_selections \in Selections, version \in 1..MaxVersions :
        \E r \in generate_exam(questions, banks, preamble_file, bank_selections, version) :
            /\ questions' = r.questions
            /\ ret' = Call("generate_exam", <<bank_selections, version>>, r.err, r.value)
            /\ UNCHANGED banks
            /\ FrameGen

NextGen ==
    \/ CallAddBank
    \/ CallSampleQuestions
    \/ CallGenerateExam

SpecGen == InitGen /\ [][NextGen]_vars

----------------------------------------------------------------------------
(* main(): one run of the command-line driver *)

\* The parsed arguments and configuration file: config['question_banks'],
\* config['selections'], args.versions and args.preamble.
Configs ==
    [question_banks : SeqsUpTo(DOMAIN BankFiles, 2),
     selections : Selections,
     versions : 0..MaxVersions,
     preamble : PreambleArgs]

At(at, i) == [at |-> at, i |-> i]

\* line 154: generator = ExamGenerator(preamble_file=args.preamble)
InitMain ==
    /\ config \in Configs
    /\ questions = << >>
    /\ banks = << >>
    /\ preamble_file = config.preamble
    /\ ret = NoCall
    /\ returned = << >>
    /\ pc = At("add_banks", 1)
    /\ written = << >>
    /\ rendered = << >>

\* lines 155-156: one iteration of the loop over config['question_banks']
MainAddBank ==
    /\ pc.at = "add_banks"
    /\ pc.i <= Len(config.question_banks)
    /\ LET r == add_bank(questions, banks, config.question_banks[pc.i])
       IN  /\ questions' = r.questions
           /\ banks' = r.banks
    /\ ret' = Call("add_bank", <<config.question_banks[pc.i]>>, "", << >>)
    /\ pc' = At("add_banks", pc.i + 1)
    /\ UNCHANGED <<preamble_file, returned, config, written, rendered>>

\* line 158, after the last bank: the output directory is made
MainMkdir ==
    /\ pc.at = "add_banks"
    /\ pc.i > Len(config.question_banks)
    /\ pc' = At("versions", 1)
    /\ UNCHANGED <<questions, banks, preamble_file, ret, returned, config, written, rendered>>

\* lines 160-164: one iteration of the loop over the versions; an error of
\* generate_exam is caught by nothing and ends the run before the file is opened
MainVersion ==
    /\ pc.at = "versions"
    /\ pc.i <= config.versions
    /\ \E r \in generate_exam(questions, banks, preamble_file, config.selections, pc.i) :
          /\ questions' = r.questions
          /\ ret' = Call("generate_exam", <<config.selections, pc.i>>, r.err, r.value)
          /\ IF r.err # ""
             THEN /\ pc' = At("raised", pc.i)
                  /\ UNCHANGED <<written, rendered>>
             ELSE /\ pc' = At("versions", pc.i + 1)
                  /\ written' = Append(written, r.value)
                  /\ rendered' = Append(rendered, Range(r.all))
    /\ UNCHANGED <<banks, preamble_file, returned, config>>

\* the loop over the versions is over: main returns
MainReturn ==
    /\ pc.at = "versions"
    /\ pc.i > config.versions
    /\ pc' = At("done", pc.i)
    /\ UNCHANGED <<questions, banks, preamble_file, ret, returned, config, written, rendered>>

NextMain ==
    \/ MainAddBank
    \/ MainMkdir
    \/ MainVersion
    \/ MainReturn

SpecMain == InitMain /\ [][NextMain]_vars

----------------------------------------------------------------------------
(* Properties of Question (checked under SpecQ) *)

Count(x, xs) == Cardinality({i \in 1..Len(xs) : xs[i] = x})

Elems(xs) == {xs[i] : i \in 1..Len(xs)}

\* a and b hold the same strings the same number of times
SameMultiset(a, b) ==
    /\ Len(a) = Len(b)
    /\ \A x \in Elems(a) \cup Elems(b) : Count(x, a) = Count(x, b)

Distinct(xs) == \A i, j \in 1..Len(xs) : xs[i] = xs[j] => i = j

\* sub is full with some elements left out, the order kept
RECURSIVE IsSubsequence(_, _)
IsSubsequence(sub, full) ==
    IF sub = << >> THEN TRUE
    ELSE IF full = << >> THEN FALSE
    ELSE IF Head(sub) = Head(full) THEN IsSubsequence(Tail(sub), Tail(full))
    ELSE IsSubsequence(sub, Tail(full))

Identity(n) == [k \in 1..n |-> k - 1]

\* C1: every result of get_shuffled_choices is a permutation of the instance's
\* original choices (same length, same multiset), and all get_shuffled_choices
\* calls on an instance whose history holds only get_shuffled_choices and
\* to_latex calls (no direct shuffle_choices between them) return the same result.
C1_PermutationAndStable ==
    \A q \in 1..Len(returned) :
        /\ \A r \in returned[q].values : SameMultiset(r.choices, questions[q].choices)
        /\ Cardinality(returned[q].values) <= 1
        /\ (ret.op = "get_shuffled_choices" /\ ret.args = <<q>>) =>
               /\ returned[q].values = {ret.value}
               /\ ret.value.choices = ShuffledChoices(questions[q])

\* C1 witness: a second get_shuffled_choices call has returned, on an instance
\* with a repeated choice string whose cached order is not the declared order.
C1_Witness ==
    \E q \in 1..Len(returned) :
        /\ ret.op = "get_shuffled_choices" /\ ret.args = <<q>>
        /\ returned[q].repeated
        /\ Len(questions[q].choices) = 3
        /\ ~Distinct(questions[q].choices)
        /\ ret.value.choices # questions[q].choices

\* C2 as stated: once a permutation is stored, no call (shuffle_choices
\* included) replaces it by a different one or resets it.
C2_WriteOnce ==
    [][\A q \in 1..Len(questions) :
          questions[q]._shuffled_indices # None =>
              questions'[q]._shuffled_indices = questions[q]._shuffled_indices]_vars

\* C2 amended: the stored permutation becomes set on the first
\* shuffle_choices, get_shuffled_choices or to_latex(shuffle=True) call, is
\* never reset to None, and is never replaced by get_shuffled_choices or
\* to_latex; only a direct shuffle_choices call on the instance stores a new one.
C2_SetOnceUnlessReshuffled ==
    [][\A q \in 1..Len(questions) :
          LET old == questions[q]._shuffled_indices
              new == questions'[q]._shuffled_indices
              shuffling == \/ ret'.op \in {"shuffle_choices", "get_shuffled_choices"}
                           \/ ret'.op = "to_latex" /\ ret'.args[2]
          IN  /\ old # None => new # None
              /\ (old # None /\ new # old) =>
                     (ret'.op = "shuffle_choices" /\ ret'.args = <<q>>)
              /\ (old = None /\ new # None) => (shuffling /\ ret'.args[1] = q)
              /\ (shuffling /\ ret'.args[1] = q) => new \in Perms(Len(questions[q].choices))
      ]_vars

\* C2 witness: get_shuffled_choices has been called twice on an instance with
\* three choices whose cached permutation is not the identity.
C2_Witness ==
    \E q \in 1..Len(returned) :
        /\ ret.op = "get_shuffled_choices" /\ ret.args = <<q>>
        /\ returned[q].repeated
        /\ Len(questions[q].choices) = 3
        /\ questions[q]._shuffled_indices \notin {None, Identity(3)}

\* C3: for a list-valued correct_answers, the correct sequence returned by
\* get_shuffled_choices is a subsequence of the returned choices, holds every
\* occurrence of each choice string that is listed in correct_answers and no
\* other string; as a set it is the declared answers that are choices.
C3_CorrectSubsequence ==
    \A q \in 1..Len(returned) :
        (ret.op = "get_shuffled_choices" /\ ret.args = <<q>>
            /\ questions[q].correct_answers.isList) =>
            LET got == ret.value.correct.items
                declared == Elems(questions[q].correct_answers.items)
            IN  /\ ret.value.correct.isList
                /\ IsSubsequence(got, ret.value.choices)
                /\ Elems(got) = declared \cap Elems(questions[q].choices)
                /\ \A x \in Elems(questions[q].choices) :
                       Count(x, got) = IF x \in declared
                                       THEN Count(x, questions[q].choices) ELSE 0

\* C3 witness: a multiple-selection instance in which a listed string occurs
\* twice among the choices, another choice is not listed, one listed answer is
\* no choice at all, and the shuffle changed the order.
C3_Witness ==
    \E q \in 1..Len(returned) :
        /\ ret.op = "get_shuffled_choices" /\ ret.args = <<q>>
        /\ questions[q].correct_answers.isList
        /\ questions[q].choices = <<"A", "B", "A">>
        /\ questions[q].correct_answers.items = <<"C", "A">>
        /\ ret.value.choices = <<"A", "A", "B">>
        /\ ret.value.correct.items = <<"A", "A">>

ChoiceLines(latex) == SelectSeq(latex, LAMBDA l : l.cmd \in {"\\choice", "\\correctchoice"})

ArgsOf(lines) == [k \in 1..Len(lines) |-> lines[k].arg]

\* C4: to_latex(shuffle=True) of a single-answer instance with pairwise
\* distinct choices, one of them the correct answer, gives one line per choice
\* (the choices in the cached order), exactly one of them \correctchoice, its
\* text the declared answer.
C4_ExactlyOneCorrect ==
    \A q \in 1..Len(returned) :
        (ret.op = "to_latex" /\ ret.args = <<q, TRUE>>
            /\ ~questions[q].correct_answers.isList
            /\ Distinct(questions[q].choices)
            /\ In(questions[q].correct_answers.items[1], questions[q].choices)) =>
            LET lines == ChoiceLines(ret.value)
                marked == SelectSeq(lines, LAMBDA l : l.cmd = "\\correctchoice")
            IN  /\ Len(lines) = Len(questions[q].choices)
                /\ SameMultiset(ArgsOf(lines), questions[q].choices)
                /\ ArgsOf(lines) = ShuffledChoices(questions[q])
                /\ Len(marked) = 1
                /\ marked[1].arg = questions[q].correct_answers.items[1]

\* C4 witness: choices A, B, C with correct answer B rendered in the order C, B, A.
C4_Witness ==
    \E q \in 1..Len(returned) :
        /\ ret.op = "to_latex" /\ ret.args = <<q, TRUE>>
        /\ questions[q].choices = <<"A", "B", "C">>
        /\ questions[q].correct_answers = Single("B")
        /\ ArgsOf(ChoiceLines(ret.value)) = <<"C", "B", "A">>

----------------------------------------------------------------------------
(* Properties of QuestionBank and ExamGenerator (SpecGen) and of main() (SpecMain) *)

\* the position of the first selection that fails (its bank is not loaded,
\* or it asks for more questions than its bank holds); 0 when none fails
Fails(entry) == entry.name \notin DOMAIN banks \/ entry.count > Len(banks[entry.name])

FirstFailure(selections) ==
    IF \E k \in 1..Len(selections) : Fails(selections[k])
    THEN CHOOSE k \in 1..Len(selections) :
            Fails(selections[k]) /\ \A j \in 1..(k - 1) : ~Fails(selections[j])
    ELSE 0

TooMany(entry) == entry.name \in DOMAIN banks /\ entry.count > Len(banks[entry.name])

\* C5: sample_questions(n) with 0 <= n <= M returns n instances at pairwise
\* distinct places of the bank's list (none for n = 0), and a sample_questions
\* call changes neither the bank mapping, nor a bank's list, nor an instance.
C5_SampleDistinctMembers ==
    /\ [](ret.op = "sample_questions" =>
             LET name == ret.args[1]
                 n == ret.args[2]
             IN  n <= Len(banks[name]) =>
                     /\ ret.err = ""
                     /\ Len(ret.value) = n
                     /\ Distinct(ret.value)
                     /\ Elems(ret.value) \subseteq Elems(banks[name])
                     /\ (n = 0 => ret.value = << >>))
    /\ [][ret'.op = "sample_questions" => (banks' = banks /\ questions' = questions)]_vars

\* C5 witness: both questions of the midterm bank sampled, in the reverse of
\* the bank's order.
C5_Witness ==
    /\ ret.op = "sample_questions"
    /\ ret.args = <<"midterm", 2>>
    /\ ret.value = Reverse(banks["midterm"])

\* C6 as stated: sample_questions(n) with n > M fails with the capacity
\* error, and so does every generate_exam call one of whose selections asks a
\* loaded bank for more questions than it holds.
C6_CapacityErrorWhenever ==
    /\ (ret.op = "sample_questions" /\ ret.args[2] > Len(banks[ret.args[1]])) =>
           (ret.err = "capacity" /\ ret.value = << >>)
    /\ (ret.op = "generate_exam" /\ \E k \in 1..Len(ret.args[1]) : TooMany(ret.args[1][k])) =>
           (ret.err = "capacity" /\ ret.value = << >>)

\* C6 amended: sample_questions(n) with n > M fails with the capacity error;
\* a generate_exam call with such a selection fails and returns no document,
\* with the capacity error when that selection is the first one that fails,
\* and with the bank-not-found error when an earlier selection names a bank
\* that is not loaded.
C6_CapacityErrorFirstFailure ==
    /\ (ret.op = "sample_questions" /\ ret.args[2] > Len(banks[ret.args[1]])) =>
           (ret.err = "capacity" /\ ret.value = << >>)
    /\ (ret.op = "generate_exam" /\ \E k \in 1..Len(ret.args[1]) : TooMany(ret.args[1][k])) =>
           LET first == ret.args[1][FirstFailure(ret.args[1])]
           IN  /\ ret.value = << >>
               /\ ret.err = IF TooMany(first) THEN "capacity" ELSE "bank_not_found"

\* C6 witness: a generate_exam call whose second selection is the first that
\* fails, asking the final bank (one question) for two.
C6_Witness ==
    /\ ret.op = "generate_exam"
    /\ Len(ret.args[1]) = 2
    /\ ret.args[1][1] = Entry("midterm", 2)
    /\ ret.args[1][2] = Entry("final", 2)
    /\ "midterm" \in DOMAIN banks
    /\ "final" \in DOMAIN banks
    /\ ret.err = "capacity"

Unloaded(entry) == entry.name \notin DOMAIN banks

\* C7 as stated: every generate_exam call one of whose selections names a bank
\* that is not loaded fails with the bank-not-found error, and main() writes
\* no file for that version.
C7_BankNotFoundWhenever ==
    (ret.op = "generate_exam" /\ \E k \in 1..Len(ret.args[1]) : Unloaded(ret.args[1][k])) =>
        /\ ret.err = "bank_not_found"
        /\ ret.value = << >>
        /\ pc = At("raised", ret.args[2])
        /\ Len(written) = ret.args[2] - 1

\* C7 amended: such a call fails and returns no document, with the
\* bank-not-found error when that selection is the first one that fails and
\* with the capacity error when an earlier selection asks its bank for more
\* questions than it holds; main() ends there, and the files written are those
\* of the earlier versions only.
C7_BankNotFoundFirstFailure ==
    (ret.op = "generate_exam" /\ \E k \in 1..Len(ret.args[1]) : Unloaded(ret.args[1][k])) =>
        LET first == ret.args[1][FirstFailure(ret.args[1])]
        IN  /\ ret.err = IF Unloaded(first) THEN "bank_not_found" ELSE "capacity"
            /\ ret.value = << >>
            /\ pc = At("raised", ret.args[2])
            /\ Len(written) = ret.args[2] - 1
            /\ config.versions >= ret.args[2]

\* C7 witness: main() has stopped in its first version on a configuration that
\* selects from the loaded midterm bank and then from a bank that is not loaded.
C7_Witness ==
    /\ ret.op = "generate_exam"
    /\ ret.args[1] = <<Entry("midterm", 1), Entry("quiz", 1)>>
    /\ "midterm" \in DOMAIN banks
    /\ ret.err = "bank_not_found"
    /\ pc = At("raised", 1)
    /\ written = << >>
    /\ config.versions = 2

\* C8: in one run of main(), no Question instance rendered (and so given its
\* cached permutation) in one version is rendered again in a later version.
C8_NoInstanceReused ==
    \A v, w \in 1..Len(rendered) : v < w => rendered[v] \cap rendered[w] = {}

RECURSIVE SumCounts(_)
SumCounts(selections) ==
    IF selections = << >> THEN 0 ELSE Head(selections).count + SumCounts(Tail(selections))

\* the selection that the i-th sampled question belongs to
EntryOf(selections, i) ==
    CHOOSE k \in 1..Len(selections) :
        /\ SumCounts(SubSeq(selections, 1, k - 1)) < i
        /\ i <= SumCounts(SubSeq(selections, 1, k))

RECURSIVE Concat(_)
Concat(blocks) == IF blocks = << >> THEN << >> ELSE Head(blocks) \o Concat(Tail(blocks))

\* C9: a document returned by generate_exam is the preamble of its version,
\* \begin{questions}, one block per sampled question, \end{questions} and
\* \end{document}; there are as many blocks as the counts add up to, the i-th
\* block is the rendering (in its cached order) of a question of the bank that
\* the i-th count, in the insertion order of the selections, belongs to.
C9_DocumentStructure ==
    (ret.op = "generate_exam" /\ ret.err = "") =>
        LET selections == ret.args[1]
            doc == ret.value
            pre == _generate_preamble(preamble_file, ret.args[2])
            body == SubSeq(doc, Len(pre) + 2, Len(doc) - 2)
            heads == SelectSeq(body, LAMBDA l : l.cmd = "\\question")
            InBank(i, q) == /\ q \in Elems(banks[selections[EntryOf(selections, i)].name])
                            /\ questions[q].text = heads[i].arg
        IN  /\ Len(doc) >= Len(pre) + 3
            /\ SubSeq(doc, 1, Len(pre)) = pre
            /\ doc[Len(pre) + 1] = Line("\\begin{questions}", 0, "")
            /\ doc[Len(doc) - 1] = Line("\\end{questions}", 0, "")
            /\ doc[Len(doc)] = Line("\\end{document}", 0, "")
            /\ Len(heads) = SumCounts(selections)
            /\ \A i \in 1..Len(heads) : \E q \in 1..Len(questions) : InBank(i, q)
            /\ body = Concat([i \in 1..Len(heads) |->
                               LET q == CHOOSE q \in 1..Len(questions) : InBank(i, q)
                               IN  to_latex(questions[q], TRUE, None).value
                                   \o << Line("", 0, "") >>])

\* C9 witness: the second version of a run with a custom preamble, one
\* question of the final bank followed by the two of the midterm bank.
C9_Witness ==
    /\ ret.op = "generate_exam"
    /\ ret.err = ""
    /\ ret.args = << <<Entry("final", 1), Entry("midterm", 2)>>, 2 >>
    /\ preamble_file = "custom.tex"
    /\ Len(written) = 2
    /\ written[2] = ret.value
    /\ ArgsOf(SelectSeq(ret.value, LAMBDA l : l.cmd = "\\question")) = <<"f1", "m2", "m1">>

\* C10: a generate_exam call that fails changes neither the bank mapping, nor
\* a bank's question list, nor the cached permutation (or anything else) of
\* any Question instance.
C10_FailedCallChangesNothing ==
    [][(ret'.op = "generate_exam" /\ ret'.err # "") =>
          (banks' = banks /\ questions' = questions)]_vars

\* C10 witness: a call has failed on its second selection, after sampling two
\* questions of the midterm bank for the first, and no instance of that bank
\* has a cached permutation.
C10_Witness ==
    /\ ret.op = "generate_exam"
    /\ ret.err # ""
    /\ Len(ret.args[1]) = 2
    /\ ret.args[1][1] = Entry("midterm", 2)
    /\ "midterm" \in DOMAIN banks
    /\ \A q \in Elems(banks["midterm"]) : questions[q]._shuffled_indices = None

====
